---- MODULE Spec2Model ----
(***************************************************************************)
(* Model of the authenticated session client of the gateway                *)
(* (src/server.js): the cookie jar, the login cycle irLogin, the two-stage *)
(* fetch followJson and the /debug/health handler, run by concurrent       *)
(* request handlers on one event loop.  A step of the model is the code    *)
(* that runs between two awaits of a handler: it starts when the awaited   *)
(* upstream response arrives and ends when the next request is sent.       *)
(* The upstream is the environment: it answers every request with a        *)
(* status, a body and (for the login POST) set-cookie headers of its       *)
(* choice.  Only a successful login response sets cookies and cookies do   *)
(* not expire.  Nothing obliges the upstream to answer: a request may stay *)
(* unanswered for ever.  Time is counted in ticks of one TTL.              *)
(***************************************************************************)
EXTENDS Integers, Sequences, FiniteSets, TLC

VARIABLES
    jar,        \* the tough.CookieJar: cookies in creation order
    lastLogin,  \* time of the last completed login, 0 = never
    now,        \* Date.now()
    pc,         \* per handler: the await it is suspended at
    ret,        \* per handler: the call site irLogin returns to
    url,        \* per handler: the url followJson was called with
    link,       \* per handler: j.link of the first-stage body
    log,        \* per handler: the upstream requests of the current call
    result,     \* per handler: what followJson returned or threw
    out,        \* per handler: the /debug/health report
    calls,      \* handler invocations so far
    faults      \* non-200 upstream responses so far

vars == <<jar, lastLogin, now, pc, ret, url, link, log, result, out, calls, faults>>

----------------------------------------------------------------------------
(* Bounds of the model *)

\* handler invocations in one behaviour
MaxCalls == 2
\* the clock runs from TTL to MaxNow
MaxNow == 2
\* non-200 upstream responses in one behaviour
MaxFaults == 2

\* the handlers that may be in flight together
Callers == {"h1", "h2"}

----------------------------------------------------------------------------
(* Program constants *)

\* the login time-to-live, in clock ticks of the model
TTL == 1

AuthUrl == <<"auth">>
RootUrl == <<>>
DocUrl == <<"data", "doc">>
GetUrl == <<"data", "results", "get?subsession_id=777">>
LapchartUrl == <<"data", "results", "lapchart?subsession_id=777">>
DataUrls == {GetUrl, LapchartUrl}

----------------------------------------------------------------------------
(* The upstream's possible answers *)

Statuses == {200, 401, 500}
Ok(status) == status >= 200 /\ status <= 299

BlobUrl == <<"blob", "777">>
RawLaps == "{\"laps\":[1,2]}"
RawLink == "{\"link\":\"https://x/blob/777\"}"
RawHtml == "<html>"
RawBodies == {RawLaps, RawLink, RawHtml}

NoLink == <<"undefined">>
EmptyObject == [link |-> NoLink, payload |-> "{}"]

\* JSON.parse of a response body: the decoded value, or a SyntaxError
JsonParse(raw) ==
    CASE raw = RawLaps  -> [ok |-> TRUE, value |-> [link |-> NoLink, payload |-> "laps"]]
      [] raw = RawLink  -> [ok |-> TRUE, value |-> [link |-> BlobUrl, payload |-> "{}"]]
      [] OTHER          -> [ok |-> FALSE, value |-> EmptyObject]

CkSid == [key |-> <<"s", "i", "d">>, value |-> "s1", path |-> RootUrl]
CkAbc == [key |-> <<"a", "u", "t", "h", "t", "o", "k", "e", "n", "1", "2", "3">>,
          value |-> "abc", path |-> RootUrl]
CkXyz == [key |-> <<"A", "u", "t", "h", "T", "o", "k", "e", "n">>,
          value |-> "xyz", path |-> AuthUrl]
\* the set-cookie headers a successful login response may carry (a refused
\* login and the other responses carry none)
SetCookieChoices == {<<CkSid>>, <<CkAbc>>, <<CkXyz>>}

----------------------------------------------------------------------------
(* The cookie jar *)

IsPrefix(s, t) == Len(s) <= Len(t) /\ SubSeq(t, 1, Len(s)) = s

UpperCase == <<"A", "B", "C", "D", "E", "F", "G", "H", "I", "J", "K", "L", "M",
               "N", "O", "P", "Q", "R", "S", "T", "U", "V", "W", "X", "Y", "Z">>
LowerCase == <<"a", "b", "c", "d", "e", "f", "g", "h", "i", "j", "k", "l", "m",
               "n", "o", "p", "q", "r", "s", "t", "u", "v", "w", "x", "y", "z">>

\* String.prototype.toLowerCase, on a string held as its characters
toLowerCase(k) ==
    [i \in 1..Len(k) |->
        IF \E n \in 1..26 : UpperCase[n] = k[i]
        THEN LowerCase[CHOOSE n \in 1..26 : UpperCase[n] = k[i]]
        ELSE k[i]]

AuthTokenPrefix == <<"a", "u", "t", "h", "t", "o", "k", "e", "n">>

\* jar.setCookie: a cookie of the same key and path is replaced in place
\* (it keeps its creation time), any other is added last
setCookie(j, c) ==
    IF \E i \in 1..Len(j) : j[i].key = c.key /\ j[i].path = c.path
    THEN [i \in 1..Len(j) |->
            IF j[i].key = c.key /\ j[i].path = c.path THEN c ELSE j[i]]
    ELSE Append(j, c)

RECURSIVE setCookies(_, _)
setCookies(j, cs) ==
    IF cs = <<>> THEN j ELSE setCookies(setCookie(j, Head(cs)), Tail(cs))

\* jar.getCookiesSync(u): the cookies whose path matches u, longest path
\* first, then oldest first
RECURSIVE byPathLength(_, _)
byPathLength(cs, n) ==
    LET here == SelectSeq(cs, LAMBDA c : Len(c.path) = n)
    IN  IF n = 0 THEN here ELSE here \o byPathLength(cs, n - 1)

getCookiesSync(j, u) ==
    byPathLength(SelectSeq(j, LAMBDA c : IsPrefix(c.path, u)), Len(u))

NoToken == "null"

RECURSIVE firstAuthToken(_)
firstAuthToken(cs) ==
    IF cs = <<>> THEN NoToken
    ELSE IF IsPrefix(AuthTokenPrefix, toLowerCase(Head(cs).key))
         THEN Head(cs).value
         ELSE firstAuthToken(Tail(cs))

getAuthTokenFromJar(j) ==
    LET a == firstAuthToken(getCookiesSync(j, AuthUrl))
        r == firstAuthToken(getCookiesSync(j, RootUrl))
        d == firstAuthToken(getCookiesSync(j, DocUrl))
    IN  IF a # NoToken THEN a ELSE IF r # NoToken THEN r ELSE d

NoAuth == "none"
\* headers without the bearer token
irHeadersPlain(j) == NoAuth

\* the authorization header irHeaders() builds
irHeaders(j) ==
    LET token == getAuthTokenFromJar(j)
    IN  IF token # NoToken THEN "Bearer " \o token ELSE NoAuth

----------------------------------------------------------------------------
(* Requests, results *)

\* the Cookie header fetch-cookie adds: how many cookies of the jar go to u
\* (none to the blob host, which is another origin)
cookieHeader(j, u) == IF u = BlobUrl THEN 0 ELSE Len(getCookiesSync(j, u))

Request(op, u, auth, cookies, force) ==
    [op |-> op, url |-> u, auth |-> auth, cookies |-> cookies, force |-> force,
     status |-> 0, body |-> "", set |-> <<>>]

\* the request of the login POST: its own headers, no authorization
PostRequest(j, force) == Request("POST", AuthUrl, NoAuth, cookieHeader(j, AuthUrl), force)
ProbeRequest(j) == Request("PROBE", DocUrl, irHeaders(j), cookieHeader(j, DocUrl), FALSE)
GetRequest(j, u) == Request("GET", u, irHeaders(j), cookieHeader(j, u), FALSE)

\* the log keeps the request headers of the latest request only
Brief(e) == [e EXCEPT !.auth = NoAuth, !.cookies = 0, !.set = <<>>]
Sent(lg, req) == Append([i \in 1..Len(lg) |-> Brief(lg[i])], req)

\* the response to the last request of lg
Answered(lg, status, body, set) ==
    [lg EXCEPT ![Len(lg)] = [@ EXCEPT !.status = status, !.body = body, !.set = set]]

NoResult == [state |-> "none", value |-> EmptyObject, status |-> 0, msg |-> "", http |-> 0]
\* res.json(value) of the route
Returned(v) == [state |-> "ok", value |-> v, status |-> 0, msg |-> "", http |-> 200]
\* the route's catch: res.status(e.status || 502).json({status: e.status || 0, message})
Thrown(status, msg) ==
    [state |-> "error", value |-> EmptyObject, status |-> status, msg |-> msg,
     http |-> IF status # 0 THEN status ELSE 502]

NoOut == [state |-> "none", forced |-> FALSE, tokenPresent |-> FALSE, loginOk |-> FALSE,
          loginStatus |-> 0, loginErr |-> "", docStatus |-> 0]

\* the messages of the errors the code throws
MsgAuth == "auth <status>"
MsgNoToken == "login ok but no authtoken cookie found"
MsgDoc401 == "iRacing /data/doc -> 401 (Legacy / CAPTCHA / WAF)"
MsgGet == "GET <url>"
MsgFollow == "follow <link>"
MsgSyntax == "SyntaxError"

TypeOK ==
    /\ now \in TTL..MaxNow
    /\ lastLogin \in 0..MaxNow
    /\ pc \in [Callers -> {"idle", "post", "probe", "get1", "get1r", "get2", "get2r",
                           "hdoc", "done"}]
    /\ ret \in [Callers -> {"", "first", "retry1", "retry2", "health"}]
    /\ calls \in 0..MaxCalls
    /\ faults \in 0..MaxFaults

Init ==
    /\ jar = <<>>
    /\ lastLogin = 0
    /\ now = TTL
    /\ pc = [h \in Callers |-> "idle"]
    /\ ret = [h \in Callers |-> ""]
    /\ url = [h \in Callers |-> RootUrl]
    /\ link = [h \in Callers |-> NoLink]
    /\ log = [h \in Callers |-> <<>>]
    /\ result = [h \in Callers |-> NoResult]
    /\ out = [h \in Callers |-> NoOut]
    /\ calls = 0
    /\ faults = 0

----------------------------------------------------------------------------
(* irLogin, as the pieces between its awaits.  cont is the call site:     *)
(* "first" (followJson line 78), "retry1" (line 81), "retry2" (line 88),  *)
(* "health" (line 138).  lg is the handler's log so far, j the jar.       *)

\* irLogin resolved: the caller goes on to its next request
Resume(h, cont, lg, j, o) ==
    /\ result' = result
    /\ IF cont = "health"
       THEN /\ out' = [out EXCEPT ![h] = [o EXCEPT !.loginOk = TRUE]]
            /\ pc' = [pc EXCEPT ![h] = "hdoc"]
            /\ log' = [log EXCEPT ![h] = Sent(lg, GetRequest(j, DocUrl))]
       ELSE /\ out' = out
            /\ pc' = [pc EXCEPT ![h] =
                        CASE cont = "first" -> "get1"
                          [] cont = "retry1" -> "get1r"
                          [] OTHER -> "get2r"]
            /\ log' = [log EXCEPT ![h] =
                        Sent(lg, GetRequest(j, IF cont = "retry2" THEN link'[h] ELSE url'[h]))]

\* irLogin rejected: followJson lets the error through to the route's
\* catch; /debug/health notes it and goes on to its GET of /data/doc
Reject(h, cont, lg, j, o, status, msg) ==
    IF cont = "health"
    THEN /\ out' = [out EXCEPT ![h] = [o EXCEPT !.loginOk = FALSE, !.loginStatus = status,
                                             !.loginErr = msg]]
         /\ pc' = [pc EXCEPT ![h] = "hdoc"]
         /\ log' = [log EXCEPT ![h] = Sent(lg, GetRequest(j, DocUrl))]
         /\ result' = result
    ELSE /\ out' = out
         /\ pc' = [pc EXCEPT ![h] = "done"]
         /\ log' = [log EXCEPT ![h] = lg]
         /\ result' = [result EXCEPT ![h] = Thrown(status, msg)]

\* the TTL test with the comparison turned round
FreshReversed == now - lastLogin > TTL

\* the TTL test with the boundary let through
FreshInclusive == now - lastLogin <= TTL

\* the TTL test of line 53
Fresh == now - lastLogin < TTL

\* irLogin(force) that never clears the jar
irLoginNoClear(h, force, cont, lg, o) ==
    /\ lastLogin' = lastLogin
    /\ IF ~force /\ Fresh
       THEN /\ jar' = jar
            /\ ret' = ret
            /\ Resume(h, cont, lg, jar, o)
       ELSE /\ jar' = jar
            /\ ret' = [ret EXCEPT ![h] = cont]
            /\ pc' = [pc EXCEPT ![h] = "post"]
            /\ log' = [log EXCEPT ![h] = Sent(lg, PostRequest(jar', force))]
            /\ result' = result
            /\ out' = [out EXCEPT ![h] = o]

\* irLogin(force) up to its first await: return at once when fresh, else
\* clear the jar when forced and send the login POST
irLogin(h, force, cont, lg, o) ==
    /\ lastLogin' = lastLogin
    /\ IF ~force /\ Fresh
       THEN /\ jar' = jar
            /\ ret' = ret
            /\ Resume(h, cont, lg, jar, o)
       ELSE /\ jar' = IF force THEN <<>> ELSE jar
            /\ ret' = [ret EXCEPT ![h] = cont]
            /\ pc' = [pc EXCEPT ![h] = "post"]
            /\ log' = [log EXCEPT ![h] = Sent(lg, PostRequest(jar', force))]
            /\ result' = result
            /\ out' = [out EXCEPT ![h] = o]

\* the upstream answers with a status; statuses other than 200 are counted
Answer(status) ==
    /\ status \in Statuses
    /\ status # 200 => faults < MaxFaults
    /\ faults' = IF status = 200 THEN faults ELSE faults + 1

\* the login POST answered, its status not looked at
PostResponseUnchecked(h) ==
    /\ pc[h] = "post"
    /\ UNCHANGED <<url, link>>
    /\ \E status \in Statuses :
       \E set \in IF Ok(status) THEN SetCookieChoices ELSE {<<>>} :
        /\ Answer(status)
        /\ LET lg == Answered(log[h], status, "", set)
               j == setCookies(jar, set)
           IN  /\ jar' = j
               /\ lastLogin' = lastLogin
               /\ ret' = ret
               /\ pc' = [pc EXCEPT ![h] = "probe"]
               /\ log' = [log EXCEPT ![h] = Sent(lg, ProbeRequest(j))]
               /\ result' = result
               /\ out' = out
    /\ UNCHANGED <<now, calls>>

\* the login POST answered, the probe sent without looking for the token
PostResponseNoTokenTest(h) ==
    /\ pc[h] = "post"
    /\ UNCHANGED <<url, link>>
    /\ \E status \in Statuses :
       \E set \in IF Ok(status) THEN SetCookieChoices ELSE {<<>>} :
        /\ Answer(status)
        /\ LET lg == Answered(log[h], status, "", set)
               j == setCookies(jar, set)
           IN  /\ jar' = j
               /\ lastLogin' = lastLogin
               /\ ret' = ret
               /\ IF ~Ok(status)
                  THEN Reject(h, ret[h], lg, j, out[h], status, MsgAuth)
                  ELSE /\ pc' = [pc EXCEPT ![h] = "probe"]
                       /\ log' = [log EXCEPT ![h] = Sent(lg, ProbeRequest(j))]
                       /\ result' = result
                       /\ out' = out
    /\ UNCHANGED <<now, calls>>

\* lines 57-71: the login POST is answered
PostResponse(h) ==
    /\ pc[h] = "post"
    /\ UNCHANGED <<url, link>>
    /\ \E status \in Statuses :
       \E set \in IF Ok(status) THEN SetCookieChoices ELSE {<<>>} :
        /\ Answer(status)
        /\ LET lg == Answered(log[h], status, "", set)
               j == setCookies(jar, set)
           IN  /\ jar' = j
               /\ lastLogin' = lastLogin
               /\ ret' = ret
               /\ IF ~Ok(status)
                  THEN Reject(h, ret[h], lg, j, out[h], status, MsgAuth)
                  ELSE IF getAuthTokenFromJar(j) = NoToken
                  THEN Reject(h, ret[h], lg, j, out[h], 401, MsgNoToken)
                  ELSE /\ pc' = [pc EXCEPT ![h] = "probe"]
                       /\ log' = [log EXCEPT ![h] = Sent(lg, ProbeRequest(j))]
                       /\ result' = result
                       /\ out' = out
    /\ UNCHANGED <<now, calls>>

\* the probe answered, the login recorded before the 401 test
ProbeResponseRecordFirst(h) ==
    /\ pc[h] = "probe"
    /\ UNCHANGED <<url, link>>
    /\ \E status \in Statuses :
        /\ Answer(status)
        /\ lastLogin' = now
        /\ LET lg == Answered(log[h], status, "", <<>>)
           IN  IF status = 401
               THEN Reject(h, ret[h], lg, jar, out[h], 401, MsgDoc401)
               ELSE Resume(h, ret[h], lg, jar, out[h])
    /\ UNCHANGED <<jar, now, ret, calls>>

\* lines 71-74: the probe is answered
ProbeResponse(h) ==
    /\ pc[h] = "probe"
    /\ UNCHANGED <<url, link>>
    /\ \E status \in Statuses :
        /\ Answer(status)
        /\ LET lg == Answered(log[h], status, "", <<>>)
           IN  IF status = 401
               THEN /\ lastLogin' = lastLogin
                    /\ Reject(h, ret[h], lg, jar, out[h], 401, MsgDoc401)
               ELSE /\ lastLogin' = now
                    /\ Resume(h, ret[h], lg, jar, out[h])
    /\ UNCHANGED <<jar, now, ret, calls>>

----------------------------------------------------------------------------
(* followJson *)

\* lines 77-80: a route calls followJson(u)
followJson(h) ==
    /\ pc[h] = "idle"
    /\ calls < MaxCalls
    /\ calls' = calls + 1
    /\ \E u \in DataUrls :
        /\ url' = [url EXCEPT ![h] = u]
        /\ link' = link
        /\ irLogin(h, FALSE, "first", <<>>, out[h])
    /\ UNCHANGED <<now, faults>>

\* lines 82-92 without the link-follow: the first-stage body is the result
AfterGetNoFollow(h, lg, status, body) ==
    /\ out' = out
    /\ pc' = [pc EXCEPT ![h] = "done"]
    /\ link' = link
    /\ log' = [log EXCEPT ![h] = lg]
    /\ result' = [result EXCEPT ![h] =
                    IF ~Ok(status) THEN Thrown(status, MsgGet)
                    ELSE IF JsonParse(body).ok THEN Returned(JsonParse(body).value)
                    ELSE Returned(EmptyObject)]

\* lines 82-92, once the response r to the GET of url is final
AfterGet(h, lg, status, body) ==
    LET parsed == JsonParse(body)
        j == IF parsed.ok THEN parsed.value ELSE EmptyObject
    IN  /\ out' = out
        /\ IF ~Ok(status)
           THEN /\ pc' = [pc EXCEPT ![h] = "done"]
                /\ result' = [result EXCEPT ![h] = Thrown(status, MsgGet)]
                /\ link' = link
                /\ log' = [log EXCEPT ![h] = lg]
           ELSE IF j.link # NoLink
           THEN /\ pc' = [pc EXCEPT ![h] = "get2"]
                /\ result' = result
                /\ link' = [link EXCEPT ![h] = j.link]
                /\ log' = [log EXCEPT ![h] = Sent(lg, GetRequest(jar, j.link))]
           ELSE /\ pc' = [pc EXCEPT ![h] = "done"]
                /\ result' = [result EXCEPT ![h] = Returned(j)]
                /\ link' = link
                /\ log' = [log EXCEPT ![h] = lg]

\* lines 89-90, once the response r2 to the GET of j.link is final
AfterFollow(h, lg, status, body) ==
    LET parsed == JsonParse(body)
    IN  /\ out' = out
        /\ pc' = [pc EXCEPT ![h] = "done"]
        /\ log' = [log EXCEPT ![h] = lg]
        /\ result' = [result EXCEPT ![h] =
                        IF ~Ok(status) THEN Thrown(status, MsgFollow)
                        ELSE IF ~parsed.ok THEN Thrown(0, MsgSyntax)
                        ELSE Returned(parsed.value)]

\* the first GET answered, any failure taken for an expired session
GetResponseAnyFailure(h) ==
    /\ pc[h] = "get1"
    /\ \E status \in Statuses, body \in RawBodies \cup {""} :
        /\ Answer(status)
        /\ (body = "") = (status # 200)
        /\ LET lg == Answered(log[h], status, body, <<>>)
           IN  IF ~Ok(status)
               THEN /\ UNCHANGED <<url, link>>
                    /\ irLogin(h, TRUE, "retry1", lg, out[h])
               ELSE /\ UNCHANGED <<jar, lastLogin, ret, url>>
                    /\ AfterGet(h, lg, status, body)
    /\ UNCHANGED <<now, calls>>

\* the first GET answered, a 401 retried without logging in again
GetResponseNoLogin(h) ==
    /\ pc[h] = "get1"
    /\ \E status \in Statuses, body \in RawBodies \cup {""} :
        /\ Answer(status)
        /\ (body = "") = (status # 200)
        /\ LET lg == Answered(log[h], status, body, <<>>)
           IN  IF status = 401
               THEN /\ UNCHANGED <<jar, lastLogin, ret, url, link, result, out>>
                    /\ pc' = [pc EXCEPT ![h] = "get1r"]
                    /\ log' = [log EXCEPT ![h] = Sent(lg, GetRequest(jar, url[h]))]
               ELSE /\ UNCHANGED <<jar, lastLogin, ret, url>>
                    /\ AfterGet(h, lg, status, body)
    /\ UNCHANGED <<now, calls>>

\* lines 80-81: the first GET of url is answered
GetResponse(h) ==
    /\ pc[h] = "get1"
    /\ \E status \in Statuses, body \in RawBodies \cup {""} :
        /\ Answer(status)
        /\ (body = "") = (status # 200)
        /\ LET lg == Answered(log[h], status, body, <<>>)
           IN  IF status = 401
               THEN /\ UNCHANGED <<url, link>>
                    /\ irLogin(h, TRUE, "retry1", lg, out[h])
               ELSE /\ UNCHANGED <<jar, lastLogin, ret, url>>
                    /\ AfterGet(h, lg, status, body)
    /\ UNCHANGED <<now, calls>>

\* a retry that is itself retried on 401
RetryResponseAgain(h) ==
    /\ pc[h] = "get1r"
    /\ \E status \in Statuses, body \in RawBodies \cup {""} :
        /\ Answer(status)
        /\ (body = "") = (status # 200)
        /\ LET lg == Answered(log[h], status, body, <<>>)
           IN  IF status = 401
               THEN /\ UNCHANGED <<url, link>>
                    /\ irLogin(h, TRUE, "retry1", lg, out[h])
               ELSE /\ UNCHANGED <<jar, lastLogin, ret, url>>
                    /\ AfterGet(h, lg, status, body)
    /\ UNCHANGED <<now, calls>>

\* line 81: the GET repeated after the forced login is answered
RetryResponse(h) ==
    /\ pc[h] = "get1r"
    /\ \E status \in Statuses, body \in RawBodies \cup {""} :
        /\ Answer(status)
        /\ (body = "") = (status # 200)
        /\ AfterGet(h, Answered(log[h], status, body, <<>>), status, body)
    /\ UNCHANGED <<jar, lastLogin, now, ret, url, calls>>

\* lines 87-88: the first GET of j.link is answered
FollowResponse(h) ==
    /\ pc[h] = "get2"
    /\ \E status \in Statuses, body \in RawBodies \cup {""} :
        /\ Answer(status)
        /\ (body = "") = (status # 200)
        /\ LET lg == Answered(log[h], status, body, <<>>)
           IN  IF status = 401
               THEN /\ UNCHANGED <<url, link>>
                    /\ irLogin(h, TRUE, "retry2", lg, out[h])
               ELSE /\ UNCHANGED <<jar, lastLogin, ret, url, link>>
                    /\ AfterFollow(h, lg, status, body)
    /\ UNCHANGED <<now, calls>>

\* a second-stage retry that is itself retried on 401
FollowRetryResponseAgain(h) ==
    /\ pc[h] = "get2r"
    /\ \E status \in Statuses, body \in RawBodies \cup {""} :
        /\ Answer(status)
        /\ (body = "") = (status # 200)
        /\ LET lg == Answered(log[h], status, body, <<>>)
           IN  IF status = 401
               THEN /\ UNCHANGED <<url, link>>
                    /\ irLogin(h, TRUE, "retry2", lg, out[h])
               ELSE /\ UNCHANGED <<jar, lastLogin, ret, url, link>>
                    /\ AfterFollow(h, lg, status, body)
    /\ UNCHANGED <<now, calls>>

\* line 88: the GET of j.link repeated after the forced login is answered
FollowRetryResponse(h) ==
    /\ pc[h] = "get2r"
    /\ \E status \in Statuses, body \in RawBodies \cup {""} :
        /\ Answer(status)
        /\ (body = "") = (status # 200)
        /\ AfterFollow(h, Answered(log[h], status, body, <<>>), status, body)
    /\ UNCHANGED <<jar, lastLogin, now, ret, url, link, calls>>

----------------------------------------------------------------------------
(* /debug/health *)

\* lines 135-139: the handler up to its first await
debugHealth(h) ==
    /\ pc[h] = "idle"
    /\ calls < MaxCalls
    /\ calls' = calls + 1
    /\ UNCHANGED <<url, link>>
    /\ \E force \in BOOLEAN :
        irLogin(h, force, "health", <<>>,
                [NoOut EXCEPT !.state = "running", !.forced = force,
                              !.tokenPresent = getAuthTokenFromJar(jar) # NoToken])
    /\ UNCHANGED <<now, faults>>

\* lines 139-141: the GET of /data/doc is answered and the report is sent
HealthResponse(h) ==
    /\ pc[h] = "hdoc"
    /\ \E status \in Statuses :
        /\ Answer(status)
        /\ log' = [log EXCEPT ![h] = Answered(@, status, "", <<>>)]
        /\ out' = [out EXCEPT ![h].docStatus = status, ![h].state = "sent"]
    /\ pc' = [pc EXCEPT ![h] = "done"]
    /\ UNCHANGED <<jar, lastLogin, now, ret, url, link, result, calls>>

----------------------------------------------------------------------------

\* the response has gone to the inbound caller; the handler is over
Return(h) ==
    /\ pc[h] = "done"
    /\ pc' = [pc EXCEPT ![h] = "idle"]
    /\ ret' = [ret EXCEPT ![h] = ""]
    /\ url' = [url EXCEPT ![h] = RootUrl]
    /\ link' = [link EXCEPT ![h] = NoLink]
    /\ log' = [log EXCEPT ![h] = <<>>]
    /\ result' = [result EXCEPT ![h] = NoResult]
    /\ out' = [out EXCEPT ![h] = NoOut]
    /\ UNCHANGED <<jar, lastLogin, now, calls, faults>>

\* time passes
Tick ==
    /\ now < MaxNow
    /\ now' = now + 1
    /\ UNCHANGED <<jar, lastLogin, pc, ret, url, link, log, result, out, calls, faults>>

Next ==
    \/ \E h \in Callers : followJson(h)
    \/ \E h \in Callers : debugHealth(h)
    \/ \E h \in Callers : PostResponse(h)
    \/ \E h \in Callers : ProbeResponse(h)
    \/ \E h \in Callers : GetResponse(h)
    \/ \E h \in Callers : RetryResponse(h)
    \/ \E h \in Callers : FollowResponse(h)
    \/ \E h \in Callers : FollowRetryResponse(h)
    \/ \E h \in Callers : HealthResponse(h)
    \/ \E h \in Callers : Return(h)
    \/ Tick

\* requests arrive at any time: handlers run concurrently on the event loop
Spec == Init /\ [][Next]_vars

\* requests arrive one after another: a handler starts when none is in flight
Quiet == \A h \in Callers : pc[h] = "idle"

NextSerial ==
    \/ \E h \in Callers : Quiet /\ followJson(h)
    \/ \E h \in Callers : Quiet /\ debugHealth(h)
    \/ \E h \in Callers : PostResponse(h)
    \/ \E h \in Callers : ProbeResponse(h)
    \/ \E h \in Callers : GetResponse(h)
    \/ \E h \in Callers : RetryResponse(h)
    \/ \E h \in Callers : FollowResponse(h)
    \/ \E h \in Callers : FollowRetryResponse(h)
    \/ \E h \in Callers : HealthResponse(h)
    \/ \E h \in Callers : Return(h)
    \/ Tick

SpecSerial == Init /\ [][NextSerial]_vars

\* the event loop runs every continuation that is ready, so a finished
\* handler hands its response over; the upstream owes no answer, and no
\* fetch of the code carries a timeout, so no response step is fair
SpecLive == SpecSerial /\ \A h \in Callers : WF_vars(Return(h))

----------------------------------------------------------------------------
(* Reading the log of a call *)

\* the positions of the requests of kind op in the log of h
Requests(h, op) == {i \in 1..Len(log[h]) : log[h][i].op = op}
\* the positions of the GETs of u
GetsOf(h, u) == {i \in Requests(h, "GET") : log[h][i].url = u}
\* the positions of the login POSTs sent by irLogin(true)
ForcedLogins(h) == {i \in Requests(h, "POST") : log[h][i].force}
\* a handler is inside a login cycle: its POST or its probe is in flight
InLogin(h) == pc[h] \in {"post", "probe"}
\* the handler of h is a data route (it runs followJson), not /debug/health
IsFollowJson(h) == pc[h] # "idle" /\ out[h].state = "none"
\* what line 85 makes of a body
Decoded(body) == IF JsonParse(body).ok THEN JsonParse(body).value ELSE EmptyObject

----------------------------------------------------------------------------
(* C1 *)

\* C1: single-flight login: of the callers that find the session stale
\* together, one logs in and the others wait for it, so two login cycles
\* (a login POST or its probe GET) are never in flight at the same time
C1_SingleFlight ==
    \A h \in Callers : \A g \in Callers :
        h # g => ~(InLogin(h) /\ InLogin(g))

----------------------------------------------------------------------------
(* C2 *)

\* C2: retry bound: a followJson call never issues a third GET of its url;
\* when the first GET and the GET repeated after the forced login both
\* return 401, the call has ended with an error of status 401, exactly one
\* forced login lies between the two GETs and none follows them
C2_RetryBound ==
    \A h \in Callers :
        LET gets == GetsOf(h, url[h])
        IN  /\ Cardinality(gets) <= 2
            /\ (Cardinality(gets) = 2 /\ \A i \in gets : log[h][i].status = 401) =>
                 /\ pc[h] = "done"
                 /\ result[h].state = "error"
                 /\ result[h].status = 401
                 /\ result[h].msg = MsgGet
                 /\ \E i \in gets : \E k \in gets :
                       /\ i < k
                       /\ k = Len(log[h])
                       /\ \E f \in ForcedLogins(h) :
                             ForcedLogins(h) \cap (i..k) = {f}
                       /\ ForcedLogins(h) \cap (k..Len(log[h])) = {}

\* a call whose first GET and retried GET were both answered 401
C2_Witness ==
    \E h \in Callers :
        /\ Cardinality(GetsOf(h, url[h])) = 2
        /\ \A i \in GetsOf(h, url[h]) : log[h][i].status = 401

----------------------------------------------------------------------------
(* C3 *)

\* C3 as claimed: a followJson call performs at most one forced login
C3_OneForcedLoginPerCall ==
    \A h \in Callers : Cardinality(ForcedLogins(h)) <= 1

\* C3: a followJson call performs at most one forced login per stage: each
\* forced login directly follows a GET answered 401, at most one follows a
\* GET of the url and at most one a GET of the link, so at most two per call
C3_OneForcedLoginPerStage ==
    \A h \in Callers :
        IsFollowJson(h) =>
            /\ \A f \in ForcedLogins(h) :
                  /\ f > 1
                  /\ log[h][f - 1].op = "GET"
                  /\ log[h][f - 1].status = 401
                  /\ log[h][f - 1].url \in {url[h], link[h]}
            /\ \A u \in {url[h], link[h]} :
                  Cardinality({f \in ForcedLogins(h) : log[h][f - 1].url = u}) <= 1
            /\ Cardinality(ForcedLogins(h)) <= 2

\* a call that logged in by force at the first stage and again at the second
C3_Witness ==
    \E h \in Callers :
        /\ Cardinality(ForcedLogins(h)) = 2
        /\ pc[h] = "done"

----------------------------------------------------------------------------
(* C4 *)

\* C4: irLogin(false) called while now - lastLogin < TTL is a no-op: the
\* handler sends no login POST and no probe, its next request is its GET,
\* and lastLogin and the cookie jar are left as they were
C4_FreshLoginIsNoOp ==
    [][\A h \in Callers :
        (/\ pc[h] = "idle"
         /\ pc'[h] # "idle"
         /\ ~out'[h].forced
         /\ now - lastLogin < TTL) =>
            /\ jar' = jar
            /\ lastLogin' = lastLogin
            /\ Len(log'[h]) = 1
            /\ log'[h][1].op = "GET"
            /\ pc'[h] \in {"get1", "hdoc"}]_vars

\* a followJson call that began within the TTL of an earlier login
C4_Witness ==
    \E h \in Callers :
        /\ pc[h] = "get1"
        /\ Len(log[h]) = 1
        /\ calls = 2
        /\ lastLogin > 0

----------------------------------------------------------------------------
(* C5 *)

\* C5: link-follow: a first-stage body with a link is followed by a GET of
\* that link, and the value returned is the decoded body of that second
\* GET; a first-stage body without a link is itself the value returned and
\* no further request is made
C5_LinkFollow ==
    \A h \in Callers :
        IsFollowJson(h) =>
            \A i \in GetsOf(h, url[h]) :
                LET j == Decoded(log[h][i].body)
                    n == Len(log[h])
                IN  Ok(log[h][i].status) =>
                        IF j.link # NoLink
                        THEN /\ i < n
                             /\ log[h][i + 1].op = "GET"
                             /\ log[h][i + 1].url = j.link
                             /\ (pc[h] = "done" /\ result[h].state = "ok") =>
                                   /\ log[h][n].op = "GET"
                                   /\ log[h][n].url = j.link
                                   /\ Ok(log[h][n].status)
                                   /\ JsonParse(log[h][n].body).ok
                                   /\ result[h] = Returned(JsonParse(log[h][n].body).value)
                        ELSE /\ i = n
                             /\ pc[h] = "done"
                             /\ result[h] = Returned(j)

\* a call that followed a link and returned the second body
C5_Witness ==
    \E h \in Callers :
        /\ pc[h] = "done"
        /\ result[h].state = "ok"
        /\ link[h] = BlobUrl
        /\ result[h].value.payload = "laps"

----------------------------------------------------------------------------
(* C6 *)

\* C6: when the probe that follows a successful login POST returns 401,
\* irLogin throws the /data/doc 401 error, whose message no other error
\* has; lastLogin stays as it was and no further POST or probe is sent
C6_SessionRejected ==
    [][\A h \in Callers :
        (/\ pc[h] = "probe"
         /\ pc'[h] # "probe"
         /\ log'[h][Len(log[h])].status = 401) =>
            /\ lastLogin' = lastLogin
            /\ MsgDoc401 \notin {MsgAuth, MsgNoToken, MsgGet, MsgFollow, MsgSyntax}
            /\ \A i \in 1..Len(log'[h]) :
                  i > Len(log[h]) => log'[h][i].op = "GET"
            /\ IF ret[h] = "health"
               THEN /\ ~out'[h].loginOk
                    /\ out'[h].loginStatus = 401
                    /\ out'[h].loginErr = MsgDoc401
               ELSE /\ pc'[h] = "done"
                    /\ Len(log'[h]) = Len(log[h])
                    /\ result'[h] = Thrown(401, MsgDoc401)]_vars

\* a followJson call that ended on the rejected probe
C6_Witness ==
    \E h \in Callers :
        /\ pc[h] = "done"
        /\ result[h].msg = MsgDoc401
        /\ log[h][Len(log[h])].op = "PROBE"
        /\ log[h][Len(log[h])].status = 401

----------------------------------------------------------------------------
(* C7 *)

\* C7: when the login POST returns a non-2xx status, irLogin throws the auth
\* error carrying that status; no probe is sent, the POST is not repeated
\* and lastLogin stays as it was
C7_LoginFailure ==
    [][\A h \in Callers :
        (/\ pc[h] = "post"
         /\ pc'[h] # "post"
         /\ ~Ok(log'[h][Len(log[h])].status)) =>
            /\ lastLogin' = lastLogin
            /\ \A i \in 1..Len(log'[h]) :
                  i > Len(log[h]) => log'[h][i].op = "GET"
            /\ IF ret[h] = "health"
               THEN /\ ~out'[h].loginOk
                    /\ out'[h].loginStatus = log'[h][Len(log[h])].status
                    /\ out'[h].loginErr = MsgAuth
               ELSE /\ pc'[h] = "done"
                    /\ Len(log'[h]) = Len(log[h])
                    /\ result'[h] = Thrown(log'[h][Len(log[h])].status, MsgAuth)]_vars

\* a followJson call that ended on a refused login POST
C7_Witness ==
    \E h \in Callers :
        /\ pc[h] = "done"
        /\ result[h] = Thrown(500, MsgAuth)
        /\ log[h][Len(log[h])].op = "POST"

----------------------------------------------------------------------------
(* C8 *)

\* C8: when a GET of the url returned 401 and the last request of the call
\* is a GET of the url that returned 200 with a body B without link, the
\* caller receives B decoded, the url was fetched exactly twice, and between
\* the two GETs lies exactly one login cycle: one forced POST, one probe
C8_TransparentReauth ==
    \A h \in Callers :
        LET lg == log[h]
            n == Len(lg)
            gets == GetsOf(h, url[h])
        IN  (/\ IsFollowJson(h)
             /\ pc[h] = "done"
             /\ n \in gets
             /\ lg[n].status = 200
             /\ Decoded(lg[n].body).link = NoLink
             /\ \E i \in gets : lg[i].status = 401) =>
                /\ result[h] = Returned(Decoded(lg[n].body))
                /\ Cardinality(gets) = 2
                /\ gets = {n - 3, n}
                /\ lg[n - 3].status = 401
                /\ lg[n - 2].op = "POST" /\ lg[n - 2].force /\ Ok(lg[n - 2].status)
                /\ lg[n - 1].op = "PROBE" /\ lg[n - 1].status # 401
                /\ ForcedLogins(h) = {n - 2}

\* a call whose GET was refused with 401 and succeeded after the forced login
C8_Witness ==
    \E h \in Callers :
        /\ pc[h] = "done"
        /\ result[h].state = "ok"
        /\ result[h].value.payload = "laps"
        /\ Cardinality(GetsOf(h, url[h])) = 2

----------------------------------------------------------------------------
(* C9 *)

\* C9: cold start: in the first call of the process, when the login POST
\* and the probe return 200 and the GET of the url returns 200 with a body
\* without link, followJson succeeds after exactly one login cycle and one
\* GET of the url, and that GET carries authorization: Bearer V for the
\* value V of the authtoken cookie the login left in the jar
C9_ColdStart ==
    \A h \in Callers :
        LET lg == log[h]
        IN  (/\ IsFollowJson(h)
             /\ pc[h] = "done"
             /\ calls = 1
             /\ Len(lg) >= 3
             /\ lg[1].op = "POST" /\ lg[1].status = 200
             /\ lg[2].op = "PROBE" /\ lg[2].status = 200
             /\ lg[3].op = "GET" /\ lg[3].url = url[h] /\ lg[3].status = 200
             /\ Decoded(lg[3].body).link = NoLink) =>
                /\ Len(lg) = 3
                /\ result[h] = Returned(Decoded(lg[3].body))
                /\ \E i \in 1..Len(jar) :
                      IsPrefix(AuthTokenPrefix, toLowerCase(jar[i].key))
                /\ \A i \in 1..Len(jar) :
                      IsPrefix(AuthTokenPrefix, toLowerCase(jar[i].key)) =>
                          lg[3].auth = "Bearer " \o jar[i].value

\* the first call of the process succeeded after one login cycle and one GET
C9_Witness ==
    \E h \in Callers :
        /\ pc[h] = "done"
        /\ calls = 1
        /\ Len(log[h]) = 3
        /\ result[h].state = "ok"
        /\ log[h][3].auth = "Bearer xyz"

----------------------------------------------------------------------------
(* C10 *)

\* C10: when a GET of followJson (of the url or of the link, first or
\* repeated) returns a non-2xx status other than 401, the call ends with an
\* error carrying that status: no request follows, and lastLogin and the
\* cookie jar stay as they were
C10_NonAuthFailure ==
    [][\A h \in Callers :
        (/\ pc[h] \in {"get1", "get1r", "get2", "get2r"}
         /\ pc'[h] # pc[h]
         /\ ~Ok(log'[h][Len(log[h])].status)
         /\ log'[h][Len(log[h])].status # 401) =>
            /\ pc'[h] = "done"
            /\ Len(log'[h]) = Len(log[h])
            /\ result'[h] = Thrown(log'[h][Len(log[h])].status,
                                   IF pc[h] \in {"get1", "get1r"} THEN MsgGet ELSE MsgFollow)
            /\ jar' = jar
            /\ lastLogin' = lastLogin]_vars

\* a call that ended on a 500 of its first GET
C10_Witness ==
    \E h \in Callers :
        /\ pc[h] = "done"
        /\ result[h] = Thrown(500, MsgGet)
        /\ Cardinality(GetsOf(h, url[h])) = 1

----------------------------------------------------------------------------
(* C11 *)

\* C11: a body that does not decode is no error: when the last response of
\* a followJson call is a 2xx GET, of the url or of the link, whose body is
\* empty or not JSON, the caller receives the empty object
C11_UndecodableIsEmpty ==
    \A h \in Callers :
        LET lg == log[h]
            n == Len(lg)
        IN  (/\ IsFollowJson(h)
             /\ pc[h] = "done"
             /\ lg[n].op = "GET"
             /\ Ok(lg[n].status)
             /\ ~JsonParse(lg[n].body).ok) =>
                result[h] = Returned(EmptyObject)

----------------------------------------------------------------------------
(* C12 *)

\* C12: data fetches exclude an in-flight login: a handler sends no GET of
\* followJson (of the url or of the link, first or repeated) while the
\* login POST or the probe of another handler is in flight
C12_NoGetDuringLogin ==
    [][\A h \in Callers :
        (/\ pc'[h] \in {"get1", "get1r", "get2", "get2r"}
         /\ pc'[h] # pc[h]) =>
            \A g \in Callers \ {h} : ~InLogin(g)]_vars

----------------------------------------------------------------------------
(* C13 *)

\* the forced login POST of g is in flight: the jar was cleared for it and
\* the cookies of its response are not yet stored
InForcedPost(g) ==
    /\ pc[g] = "post"
    /\ log[g][Len(log[g])].force

\* C13: cookie replacement is atomic: a handler that builds its headers
\* while the forced login of another handler is in flight sees the old or
\* the new cookies, never the cleared jar, so the GET it sends after passing
\* irLogin carries an authorization header
C13_AtomicCookieReplacement ==
    [][\A h \in Callers :
        (/\ pc'[h] \in {"get1", "get1r", "get2", "get2r"}
         /\ pc'[h] # pc[h]
         /\ \E g \in Callers \ {h} : InForcedPost(g)) =>
            /\ jar' # <<>>
            /\ log'[h][Len(log'[h])].auth # NoAuth]_vars

----------------------------------------------------------------------------
(* C14 *)

\* C14: lastLogin is recorded only by a step in which the probe that
\* follows a successful login POST is answered with a 2xx status; a probe
\* answered with any other status, 401 or not, leaves lastLogin as it was
C14_LoginOnlyAfterProbeOk ==
    [][/\ lastLogin' # lastLogin =>
            \E h \in Callers :
                /\ pc[h] = "probe"
                /\ pc'[h] # "probe"
                /\ Ok(log'[h][Len(log[h])].status)
       /\ \A h \in Callers :
            (/\ pc[h] = "probe"
             /\ pc'[h] # "probe"
             /\ ~Ok(log'[h][Len(log[h])].status)) => lastLogin' = lastLogin]_vars

----------------------------------------------------------------------------
(* C15 *)

\* in the call of h a data GET was answered 401 and no login has succeeded
\* since: no later probe was answered with a 2xx status
Unauthorized(h) ==
    \E i \in Requests(h, "GET") :
        /\ log[h][i].status = 401
        /\ \A k \in Requests(h, "PROBE") : k > i => ~Ok(log[h][k].status)

\* C15: a 401 on a data request makes the session Unauthenticated at once,
\* and it stays so when the forced login that follows fails: from the 401 on,
\* and after the call has ended, the session does not pass the TTL test, so
\* the next irLogin(false) logs in
C15_UnauthorizedIsStale ==
    \A h \in Callers :
        (IsFollowJson(h) /\ Unauthorized(h)) => ~(now - lastLogin < TTL)

----------------------------------------------------------------------------
(* C16 *)

\* C16: irLogin(false) skips the login if and only if now - lastLogin < TTL:
\* a handler that starts then sends its GET at once; a handler that starts
\* when now - lastLogin >= TTL (or before any login) sends the login POST
\* first, and a followJson call that began with the POST sends its data GET
\* only after the POST was answered 2xx and the probe that followed it was
\* answered
C16_TtlFreshness ==
    /\ [][\A h \in Callers :
            (/\ pc[h] = "idle"
             /\ pc'[h] # "idle"
             /\ ~out'[h].forced) =>
                /\ Len(log'[h]) = 1
                /\ (now - lastLogin < TTL) <=> (log'[h][1].op = "GET")
                /\ ~(now - lastLogin < TTL) =>
                      /\ log'[h][1].op = "POST"
                      /\ ~log'[h][1].force
                      /\ pc'[h] = "post"]_vars
    /\ [](\A h \in Callers :
            (/\ IsFollowJson(h)
             /\ log[h][1].op = "POST") =>
                \A i \in Requests(h, "GET") :
                    /\ i >= 3
                    /\ Ok(log[h][1].status)
                    /\ log[h][2].op = "PROBE"
                    /\ log[h][2].status \notin {0, 401})

\* a call that began after the TTL of an earlier login had run out and is
\* logging in again
C16_Witness ==
    \E h \in Callers :
        /\ IsFollowJson(h)
        /\ pc[h] = "post"
        /\ Len(log[h]) = 1
        /\ ~log[h][1].force
        /\ lastLogin > 0
        /\ now - lastLogin >= TTL

----------------------------------------------------------------------------
(* C17 *)

\* C17: a data GET answered 401 starts irLogin(true) whatever the jar
\* holds, an empty jar too; irLogin(true) empties the jar before its POST
\* goes out, so that POST carries no cookie; the POST of irLogin(false)
\* leaves the jar as it is and carries the cookies the jar has for /auth
C17_ClearBeforeForcedLogin ==
    [][\A h \in Callers :
        LET e == log'[h][Len(log'[h])]
        IN  /\ (/\ pc[h] \in {"get1", "get2"}
                /\ log'[h][Len(log[h])].status = 401) =>
                  /\ pc'[h] = "post"
                  /\ e.force
            /\ (/\ pc'[h] = "post"
                /\ pc[h] # "post") =>
                  /\ e.op = "POST"
                  /\ IF e.force
                     THEN /\ jar' = <<>>
                          /\ e.cookies = 0
                     ELSE /\ jar' = jar
                          /\ e.cookies = Len(getCookiesSync(jar, AuthUrl))]_vars

\* a forced login POST in flight after an earlier login had filled the jar
C17_Witness ==
    \E h \in Callers :
        /\ IsFollowJson(h)
        /\ pc[h] = "post"
        /\ Len(log[h]) = 4
        /\ log[h][1].op = "POST"
        /\ log[h][4].force
        /\ log[h][4].cookies = 0
        /\ jar = <<>>

----------------------------------------------------------------------------
(* C20 *)

\* no cookie of the jar j has a name that starts with authtoken
NoAuthTokenCookie(j) ==
    \A i \in 1..Len(j) : ~IsPrefix(AuthTokenPrefix, toLowerCase(j[i].key))

\* C20: when the login POST is answered 2xx and the jar then holds no
\* authtoken cookie, irLogin throws an error of status 401: no probe is
\* sent and lastLogin stays as it was; in followJson, at the first login as
\* in a forced one, the call ends with that error and sends no further GET
C20_NoTokenAfterLogin ==
    [][\A h \in Callers :
        (/\ pc[h] = "post"
         /\ pc'[h] # "post"
         /\ Ok(log'[h][Len(log[h])].status)
         /\ NoAuthTokenCookie(jar')) =>
            /\ lastLogin' = lastLogin
            /\ \A i \in 1..Len(log'[h]) :
                  i > Len(log[h]) => log'[h][i].op = "GET"
            /\ IF ret[h] = "health"
               THEN /\ ~out'[h].loginOk
                    /\ out'[h].loginStatus = 401
                    /\ out'[h].loginErr = MsgNoToken
               ELSE /\ pc'[h] = "done"
                    /\ Len(log'[h]) = Len(log[h])
                    /\ result'[h] = Thrown(401, MsgNoToken)]_vars

\* a followJson call whose forced login was accepted without a token
C20_Witness ==
    \E h \in Callers :
        /\ IsFollowJson(h)
        /\ pc[h] = "done"
        /\ result[h] = Thrown(401, MsgNoToken)
        /\ log[h][Len(log[h])].op = "POST"
        /\ log[h][Len(log[h])].force
        /\ Ok(log[h][Len(log[h])].status)
        /\ Cardinality(GetsOf(h, url[h])) = 1

----------------------------------------------------------------------------
(* C19 *)

\* C19: whenever the session passes the TTL test (now - lastLogin < TTL),
\* the jar holds an authtoken cookie, so a GET sent after irLogin(false)
\* returned at once carries an authorization header
C19_FreshHasToken ==
    /\ (now - lastLogin < TTL) => ~NoAuthTokenCookie(jar)
    /\ \A h \in Callers :
          (/\ pc[h] \in {"get1", "hdoc"}
           /\ Len(log[h]) = 1) => log[h][1].auth # NoAuth

----------------------------------------------------------------------------
(* C18 *)

\* C18: bounded waiting: every call that has started eventually has its
\* result or its error ready for the caller, also when the upstream never
\* answers the login POST, the probe or a GET of either stage
C18_BoundedWaiting ==
    \A h \in Callers : (pc[h] # "idle") ~> (pc[h] = "done")

====
